---- MODULE Spec2Model ----
(***************************************************************************)
(* Model of bot.py: the query-batch pipeline of the position-checking bot. *)
(*                                                                         *)
(* A task is one invocation, either of handle_message (a chat message      *)
(* arrives) or of process_queries called directly with a list of queries.  *)
(* Every variable is a function over the tasks: each invocation has its    *)
(* own locals, as the coroutines of bot.py do.                             *)
(*                                                                         *)
(* A str is a sequence of one-character strings, bytes are a sequence of   *)
(* integers.  Python's None is the record NoneVal.                         *)
(*                                                                         *)
(* The collaborators are nondeterministic: organic_ya.Organic() and        *)
(* search_xmlriver may raise, XmlTree.get_header and get_row may raise on  *)
(* the record they are given, message.edit_text may raise, the download    *)
(* may raise.  message.reply and message.answer are taken to go through.   *)
(*                                                                         *)
(* The tasks run on one event loop: a task keeps the loop until it is      *)
(* suspended at an await, and only then another task runs or the host      *)
(* cancels it.                                                             *)
(*                                                                         *)
(* Specifications: Spec (one task, direct call or handler), SpecFair (Spec *)
(* with a fair event loop), SpecText (extract_queries_from_text alone),    *)
(* SpecFile (handle_message up to the decoded file), SpecConc (two batches *)
(* on one loop), SpecProgress (batches long enough for status updates),    *)
(* SpecCancel (Spec with cancellation of the task).                        *)
(***************************************************************************)
EXTENDS Integers, Sequences, FiniteSets, TLC

(***************************************************************************)
(* Program constants                                                       *)
(***************************************************************************)
MAX_QUERIES == 10000

MAX_FILE_SIZE == 10485760

\* the period of the status update, `i % 10 == 0`
PROGRESS_EVERY == 10

(***************************************************************************)
(* Bounds of the model                                                     *)
(***************************************************************************)
\* direct calls of process_queries get lists of 0..MaxLen queries (and the
\* three boundary lengths of Lens)
MaxLen == 3

\* per run, the number of things that deviate from the plain case: a query
\* that is blank, empty or padded, a lookup that raises or answers with an
\* unusual record, a status update that fails
MaxOdd == 2

\* the length of the text of a chat message
MaxText == 4

\* the length of the content of an uploaded file, in bytes
MaxBytes == 2

(***************************************************************************)
(* Python values                                                           *)
(***************************************************************************)
NoneVal == [none |-> TRUE]

Range(s) == {s[k] : k \in 1..Len(s)}

Min(a, b) == IF a < b THEN a ELSE b

\* str.isspace() of one character, over the characters of the model
IsSpace(c) == c \in {" ", "\n", "\t", "\r", "\f"}

RECURSIVE LStrip(_)
LStrip(s) ==
    IF s # <<>> /\ IsSpace(Head(s)) THEN LStrip(Tail(s)) ELSE s

RECURSIVE RStrip(_)
RStrip(s) ==
    IF s # <<>> /\ IsSpace(s[Len(s)]) THEN RStrip(SubSeq(s, 1, Len(s) - 1)) ELSE s

\* str.strip()
Strip(s) == RStrip(LStrip(s))

\* str.startswith(c) for a one-character prefix
StartsWith(s, c) == s # <<>> /\ Head(s) = c

\* the line boundaries of str.splitlines(), over the characters of the model
LineEnds == {"\n", "\r", "\f"}

\* str.splitlines(): a line boundary or "\r\n" ends a line, a last line
\* without an end counts when it is not empty
RECURSIVE SplitFrom(_, _, _)
SplitFrom(s, lines, cur) ==
    IF s = <<>>
    THEN IF cur = <<>> THEN lines ELSE Append(lines, cur)
    ELSE IF Head(s) = "\r" /\ Len(s) > 1 /\ s[2] = "\n"
         THEN SplitFrom(Tail(Tail(s)), Append(lines, cur), <<>>)
         ELSE IF Head(s) \in LineEnds
              THEN SplitFrom(Tail(s), Append(lines, cur), <<>>)
              ELSE SplitFrom(Tail(s), lines, Append(cur, Head(s)))

SplitLines(s) == SplitFrom(s, <<>>, <<>>)

(***************************************************************************)
(* bytes.decode                                                            *)
(***************************************************************************)
\* the character of a code point: itself for the ASCII characters of the
\* model, the number of the code point otherwise
Chr(cp) ==
    CASE cp = 10 -> "\n"
      [] cp = 13 -> "\r"
      [] cp = 32 -> " "
      [] cp = 35 -> "#"
      [] cp = 47 -> "/"
      [] cp = 97 -> "a"
      [] OTHER -> ToString(cp)

IsContinuation(b) == b >= 128 /\ b =< 191

\* decode('utf-8') of one- to three-byte sequences; ok is FALSE where Python
\* raises UnicodeDecodeError
RECURSIVE Utf8From(_, _)
Utf8From(bs, text) ==
    IF bs = <<>> THEN [ok |-> TRUE, text |-> text]
    ELSE IF Head(bs) < 128
         THEN Utf8From(Tail(bs), Append(text, Chr(Head(bs))))
    ELSE IF /\ Head(bs) >= 194 /\ Head(bs) =< 223
            /\ Len(bs) >= 2 /\ IsContinuation(bs[2])
         THEN Utf8From(SubSeq(bs, 3, Len(bs)),
                       Append(text, Chr((Head(bs) - 192) * 64 + (bs[2] - 128))))
    ELSE IF /\ Head(bs) >= 224 /\ Head(bs) =< 239
            /\ Len(bs) >= 3 /\ IsContinuation(bs[2]) /\ IsContinuation(bs[3])
            /\ (Head(bs) = 224 => bs[2] >= 160)
            /\ (Head(bs) = 237 => bs[2] =< 159)
         THEN Utf8From(SubSeq(bs, 4, Len(bs)),
                       Append(text, Chr((Head(bs) - 224) * 4096 + (bs[2] - 128) * 64
                                        + (bs[3] - 128))))
    ELSE [ok |-> FALSE, text |-> <<>>]

\* the byte order mark
BOM == <<239, 187, 191>>

HasBOM(bs) == Len(bs) >= 3 /\ SubSeq(bs, 1, 3) = BOM

\* decode('cp1251'): byte 0x98 is not assigned; the letters 0xC0..0xFF are
\* U+0410..U+044F; the other upper bytes are named by their byte
RECURSIVE Cp1251From(_, _)
Cp1251From(bs, text) ==
    IF bs = <<>> THEN [ok |-> TRUE, text |-> text]
    ELSE IF Head(bs) = 152 THEN [ok |-> FALSE, text |-> <<>>]
    ELSE Cp1251From(Tail(bs),
                    Append(text, IF Head(bs) < 128 THEN Chr(Head(bs))
                                 ELSE IF Head(bs) >= 192 THEN Chr(Head(bs) + 848)
                                 ELSE "cp1251:" \o ToString(Head(bs))))

\* bytes.decode(encoding)
Decode(encoding, bs) ==
    CASE encoding = "utf-8" -> Utf8From(bs, <<>>)
      [] encoding = "utf-8-sig" ->
            Utf8From(IF HasBOM(bs) THEN SubSeq(bs, 4, Len(bs)) ELSE bs, <<>>)
      [] encoding \in {"windows-1251", "cp1251"} -> Cp1251From(bs, <<>>)

(***************************************************************************)
(* The inputs of a direct call of process_queries                          *)
(***************************************************************************)
Letters == <<"a", "b", "c", "d", "e", "f", "g", "h", "i", "j", "k", "l">>

\* the plain query at position k of a list: one letter, a different one at
\* neighbouring positions, so that the order of the rows can be read off
PlainQuery(k) == << Letters[((k - 1) % Len(Letters)) + 1] >>

\* the other queries a list may hold at position k: empty, blank, padded
OddQueries(k) == { <<>>, <<" ">>, <<" ">> \o PlainQuery(k) \o <<" ">> }

Lens == (0..MaxLen) \cup {PROGRESS_EVERY}

ShortBatches ==
    UNION { UNION { { [k \in 1..n |-> IF k \in S THEN f[k] ELSE PlainQuery(k)] :
                        f \in {g \in [S -> UNION {OddQueries(k) : k \in S}] :
                                  \A k \in S : g[k] \in OddQueries(k)} } :
                    S \in {T \in SUBSET (1..n) : Cardinality(T) =< MaxOdd} } :
            n \in Lens }

\* a list of exactly MAX_QUERIES queries and one of MAX_QUERIES + 1: blank
\* queries and a plain one at the end
LongBatches ==
    { [k \in 1..n |-> IF k = n THEN PlainQuery(k) ELSE <<" ">>] :
        n \in {MAX_QUERIES, MAX_QUERIES + 1} }

Batches == ShortBatches \cup LongBatches

\* the number of odd queries of a list, counted against MaxOdd
OddCount(qs) ==
    Min(MaxOdd, Cardinality({k \in 1..Len(qs) : qs[k] # PlainQuery(k)}))

(***************************************************************************)
(* The collaborators: organic_ya.Organic and xmltree.XmlTree               *)
(***************************************************************************)
\* what a.search_xmlriver(query) may return: a record from which header and
\* row derive ("plain"), one implying other columns ("wide"), one whose header
\* cannot be derived ("no_header"), one whose row cannot ("no_row")
RecordKinds == {"plain", "wide", "no_header", "no_row"}

\* or it raises
Responses == RecordKinds \cup {"raise"}

\* XmlTree.get_header(xml_data) returns, or raises
HasHeader(xml) == xml.kind # "no_header"

get_header(xml) == [columns |-> xml.kind]

\* XmlTree(xml_data, query).get_row() returns, or raises
HasRow(xml) == xml.kind # "no_row"

get_row(xml, query) == [query |-> query, values |-> xml.kind]

\* what message.edit_text may do
SinkResults == {"ok", "TelegramBadRequest", "TelegramNetworkError"}

(***************************************************************************)
(* State                                                                   *)
(***************************************************************************)
VARIABLES
    pc,              \* where each task stands in lines 49-258
    caller,          \* "direct": process_queries was called; "handler": handle_message;
                     \* "extract": extract_queries_from_text was called
    message,         \* line 189: the chat message of a handler task
    queries,         \* lines 49, 192: the list of queries
    i,               \* line 73: the 1-based index of the for loop
    header_written,  \* line 68
    processed,       \* line 71
    output,          \* line 66: the io.StringIO behind the csv writer, as the rows written
    xml_data,        \* line 81: the record of the current query
    status,          \* the state of the batch processor: Idle, Running, and the
                     \* return of process_queries that was taken
    ret,             \* line 221: what process_queries returned
    odd,             \* the number of odd things of the run so far (see MaxOdd)
    trace,           \* the calls of the task to its collaborators, in order
    content,         \* line 167: the decoded content of the file, with its encoding
    cancelled,       \* the task was cancelled and has not yet seen CancelledError
    current,         \* the task the event loop is running, NoTask between tasks
    yielded          \* the task gave the loop away since its last lookup

vars == <<pc, caller, message, queries, i, header_written, processed, output, xml_data,
          status, ret, odd, trace, content, cancelled, current, yielded>>

Tasks == DOMAIN pc

Log(t, e) == trace' = [trace EXCEPT ![t] = Append(@, e)]

(***************************************************************************)
(* process_queries                                                         *)
(***************************************************************************)
\* the ceiling taken off by one
TooManyOffByOne(qs) == Len(qs) >= MAX_QUERIES

\* line 60
TooMany(qs) == Len(qs) > MAX_QUERIES

\* line 74
IsSkipped(query) == Strip(query) = <<>>

\* a status update after every query
DueForStatusAlways(k) == TRUE

\* line 97
DueForStatus(k) == k % PROGRESS_EVERY = 0

\* line 99: the text of the status update
StatusText(k, done, total) == [first |-> k, second |-> total]

\* line 123: encode('utf-8-sig')
Encode(csv_content) == [bom |-> TRUE, text |-> csv_content]

\* where a return of process_queries leads
Return(t, value, state) ==
    /\ ret' = [ret EXCEPT ![t] = value]
    /\ status' = [status EXCEPT ![t] = state]
    /\ pc' = [pc EXCEPT ![t] = IF caller[t] = "direct" THEN "done" ELSE "hm_result"]

\* the for loop moves on to the next query: `continue`, or the end of the body
Continue(t) ==
    /\ i' = [i EXCEPT ![t] = @ + 1]
    /\ pc' = [pc EXCEPT ![t] = "loop"]

\* the except clause leaving the loop: `break` in the place of `continue`
OnQueryErrorBreak(t) ==
    /\ pc' = [pc EXCEPT ![t] = "finish"]
    /\ UNCHANGED i

\* lines 107-110: the except clause of the loop body logs and continues
OnQueryError(t) == Continue(t)

\* the header derived anew for every record
AfterLookupAlwaysHeader(t) == "header"

\* line 84: where the body goes on with the record of the lookup
AfterLookup(t) == IF header_written[t] THEN "row" ELSE "header"

\* lines 60-62
CheckBatchSize(t) ==
    /\ pc[t] = "pq_entry"
    /\ IF TooMany(queries[t])
       THEN /\ Log(t, [ev |-> "reply", what |-> "TooMany"])
            /\ Return(t, NoneVal, "BatchTooLarge")
       ELSE /\ pc' = [pc EXCEPT ![t] = "pq_start"]
            /\ UNCHANGED <<ret, status, trace>>
    /\ UNCHANGED <<caller, message, content, queries, i, header_written, processed, output, xml_data, odd>>

\* lines 64-71, and 125-128 when organic_ya.Organic() raises
StartRun(t) ==
    /\ pc[t] = "pq_start"
    /\ \E built \in BOOLEAN :
         IF built
         THEN /\ status' = [status EXCEPT ![t] = "Running"]
              /\ output' = [output EXCEPT ![t] = <<>>]
              /\ header_written' = [header_written EXCEPT ![t] = FALSE]
              /\ processed' = [processed EXCEPT ![t] = 0]
              /\ i' = [i EXCEPT ![t] = 1]
              /\ pc' = [pc EXCEPT ![t] = "loop"]
              /\ UNCHANGED <<ret, trace>>
         ELSE /\ Log(t, [ev |-> "reply", what |-> "Aborted"])
              /\ Return(t, NoneVal, "Aborted")
              /\ UNCHANGED <<output, header_written, processed, i>>
    /\ UNCHANGED <<caller, message, content, queries, xml_data, odd>>

\* lines 73-75
NextQuery(t) ==
    /\ pc[t] = "loop"
    /\ IF i[t] > Len(queries[t])
       THEN pc' = [pc EXCEPT ![t] = "finish"] /\ UNCHANGED i
       ELSE IF IsSkipped(queries[t][i[t]])
            THEN Continue(t)
            ELSE pc' = [pc EXCEPT ![t] = "lookup"] /\ UNCHANGED i
    /\ UNCHANGED <<caller, message, content, queries, header_written, processed, output, xml_data,
                   status, ret, odd, trace>>

\* the lookup outside the try of the loop body: when it raises, the except
\* clause of lines 125-128 ends the run
LookupUncaught(t) ==
    /\ pc[t] = "lookup"
    /\ \E r \in Responses :
         /\ r # "plain" => odd[t] < MaxOdd
         /\ odd' = [odd EXCEPT ![t] = IF r # "plain" THEN @ + 1 ELSE @]
         /\ IF r = "raise"
            THEN /\ trace' = [trace EXCEPT ![t] =
                       @ \o <<[ev |-> "lookup", i |-> i[t],
                               query |-> Strip(queries[t][i[t]]), result |-> r],
                              [ev |-> "reply", what |-> "Aborted"]>>]
                 /\ Return(t, NoneVal, "Aborted")
                 /\ UNCHANGED xml_data
            ELSE /\ Log(t, [ev |-> "lookup", i |-> i[t],
                            query |-> Strip(queries[t][i[t]]), result |-> r])
                 /\ xml_data' = [xml_data EXCEPT ![t] = [kind |-> r]]
                 /\ pc' = [pc EXCEPT ![t] = AfterLookup(t)]
                 /\ UNCHANGED <<status, ret>>
    /\ UNCHANGED <<caller, message, content, queries, i, header_written, processed, output>>

\* line 81, and 107-110 when it raises
Lookup(t) ==
    /\ pc[t] = "lookup"
    /\ \E r \in Responses :
         /\ r # "plain" => odd[t] < MaxOdd
         /\ odd' = [odd EXCEPT ![t] = IF r # "plain" THEN @ + 1 ELSE @]
         /\ Log(t, [ev |-> "lookup", i |-> i[t], query |-> Strip(queries[t][i[t]]),
                    result |-> r])
         /\ IF r = "raise"
            THEN OnQueryError(t) /\ UNCHANGED xml_data
            ELSE /\ xml_data' = [xml_data EXCEPT ![t] = [kind |-> r]]
                 /\ pc' = [pc EXCEPT ![t] = AfterLookup(t)]
                 /\ UNCHANGED i
    /\ UNCHANGED <<caller, message, content, queries, header_written, processed, output, status, ret>>

\* the header written only for a record whose row derives as well
WriteHeaderWhenRowDerives(t) ==
    /\ pc[t] = "header"
    /\ IF HasHeader(xml_data[t]) /\ HasRow(xml_data[t])
       THEN /\ output' = [output EXCEPT ![t] = Append(@, get_header(xml_data[t]))]
            /\ header_written' = [header_written EXCEPT ![t] = TRUE]
            /\ pc' = [pc EXCEPT ![t] = "row"]
            /\ UNCHANGED i
       ELSE OnQueryError(t) /\ UNCHANGED <<output, header_written>>
    /\ UNCHANGED <<caller, message, content, queries, processed, xml_data, status, ret, odd, trace>>

\* lines 84-88, and 107-110 when get_header raises
WriteHeader(t) ==
    /\ pc[t] = "header"
    /\ IF HasHeader(xml_data[t])
       THEN /\ output' = [output EXCEPT ![t] = Append(@, get_header(xml_data[t]))]
            /\ header_written' = [header_written EXCEPT ![t] = TRUE]
            /\ pc' = [pc EXCEPT ![t] = "row"]
            /\ UNCHANGED i
       ELSE OnQueryError(t) /\ UNCHANGED <<output, header_written>>
    /\ UNCHANGED <<caller, message, content, queries, processed, xml_data, status, ret, odd, trace>>

\* processed counted before the row is derived
WriteRowCountFirst(t) ==
    /\ pc[t] = "row"
    /\ processed' = [processed EXCEPT ![t] = @ + 1]
    /\ IF HasRow(xml_data[t])
       THEN /\ output' = [output EXCEPT ![t] =
                             Append(@, get_row(xml_data[t], Strip(queries[t][i[t]])))]
            /\ pc' = [pc EXCEPT ![t] = IF DueForStatus(i[t]) THEN "status" ELSE "sleep"]
            /\ UNCHANGED i
       ELSE OnQueryError(t) /\ UNCHANGED output
    /\ UNCHANGED <<caller, message, content, queries, header_written, xml_data, status, ret, odd, trace>>

\* the row written to one buffer that all runs share
WriteRowSharedBuffer(t) ==
    /\ pc[t] = "row"
    /\ IF HasRow(xml_data[t])
       THEN /\ output' = [u \in Tasks |->
                             Append(output[u], get_row(xml_data[t], Strip(queries[t][i[t]])))]
            /\ processed' = [processed EXCEPT ![t] = @ + 1]
            /\ pc' = [pc EXCEPT ![t] = IF DueForStatus(i[t]) THEN "status" ELSE "sleep"]
            /\ UNCHANGED i
       ELSE OnQueryError(t) /\ UNCHANGED <<output, processed>>
    /\ UNCHANGED <<caller, message, content, queries, header_written, xml_data, status, ret, odd, trace>>

\* lines 91-94, and 107-110 when XmlTree or get_row raises
WriteRow(t) ==
    /\ pc[t] = "row"
    /\ IF HasRow(xml_data[t])
       THEN /\ output' = [output EXCEPT ![t] =
                             Append(@, get_row(xml_data[t], Strip(queries[t][i[t]])))]
            /\ processed' = [processed EXCEPT ![t] = @ + 1]
            /\ pc' = [pc EXCEPT ![t] = IF DueForStatus(i[t]) THEN "status" ELSE "sleep"]
            /\ UNCHANGED i
       ELSE OnQueryError(t) /\ UNCHANGED <<output, processed>>
    /\ UNCHANGED <<caller, message, content, queries, header_written, xml_data, status, ret, odd, trace>>

\* a status update whose failure, other than TelegramBadRequest, ends the run
\* as an error outside the loop body does
UpdateStatusAborting(t) ==
    /\ pc[t] = "status"
    /\ \E r \in SinkResults :
         /\ r # "ok" => odd[t] < MaxOdd
         /\ odd' = [odd EXCEPT ![t] = IF r # "ok" THEN @ + 1 ELSE @]
         /\ IF r \in {"ok", "TelegramBadRequest"}
            THEN /\ Log(t, [ev |-> "edit_text",
                            text |-> StatusText(i[t], processed[t], Len(queries[t])),
                            result |-> r])
                 /\ pc' = [pc EXCEPT ![t] = "sleep"]
                 /\ UNCHANGED <<status, ret>>
            ELSE /\ trace' = [trace EXCEPT ![t] =
                       @ \o <<[ev |-> "edit_text",
                               text |-> StatusText(i[t], processed[t], Len(queries[t])),
                               result |-> r],
                              [ev |-> "reply", what |-> "Aborted"]>>]
                 /\ Return(t, NoneVal, "Aborted")
    /\ UNCHANGED <<caller, message, content, queries, i, header_written, processed, output,
                   xml_data>>

\* lines 97-102, and 107-110 when edit_text raises something else
UpdateStatus(t) ==
    /\ pc[t] = "status"
    /\ \E r \in SinkResults :
         /\ r # "ok" => odd[t] < MaxOdd
         /\ odd' = [odd EXCEPT ![t] = IF r # "ok" THEN @ + 1 ELSE @]
         /\ Log(t, [ev |-> "edit_text",
                    text |-> StatusText(i[t], processed[t], Len(queries[t])),
                    result |-> r])
         /\ IF r \in {"ok", "TelegramBadRequest"}
            THEN pc' = [pc EXCEPT ![t] = "sleep"] /\ UNCHANGED i
            ELSE OnQueryError(t)
    /\ UNCHANGED <<caller, message, content, queries, header_written, processed, output, xml_data,
                   status, ret>>

\* line 105
Pace(t) ==
    /\ pc[t] = "sleep"
    /\ Log(t, [ev |-> "sleep", i |-> i[t]])
    /\ Continue(t)
    /\ UNCHANGED <<caller, message, content, queries, header_written, processed, output, xml_data,
                   status, ret, odd>>

\* the result decided by the content of the buffer alone
FinishByContent(t) ==
    /\ pc[t] = "finish"
    /\ IF output[t] = <<>>
       THEN /\ Log(t, [ev |-> "reply", what |-> "EmptyResult"])
            /\ Return(t, NoneVal, "EmptyResult")
       ELSE Return(t, Encode(output[t]), "Completed") /\ UNCHANGED trace
    /\ UNCHANGED <<caller, message, content, queries, i, header_written, processed, output, xml_data, odd>>

\* lines 112-123
Finish(t) ==
    /\ pc[t] = "finish"
    /\ IF processed[t] = 0
       THEN /\ Log(t, [ev |-> "reply", what |-> "EmptyResult"])
            /\ Return(t, NoneVal, "EmptyResult")
       ELSE IF output[t] = <<>>
            THEN Return(t, NoneVal, "EmptyResult") /\ UNCHANGED trace
            ELSE Return(t, Encode(output[t]), "Completed") /\ UNCHANGED trace
    /\ UNCHANGED <<caller, message, content, queries, i, header_written, processed, output, xml_data, odd>>

(***************************************************************************)
(* The inputs of handle_message                                            *)
(***************************************************************************)
TextChars == {"a", " ", "#", "\n", "/"}

ByteVals == {97, 10, 208, 152}

SeqsUpTo(S, n) == UNION {[1..m -> S] : m \in 0..n}

MimeTypes == {"text/plain", "application/octet-stream", "image/png"}

\* the declared size of a file: not declared (0), the size of its content,
\* the ceiling, one more than the ceiling
FileSizes(data) == {0, Len(data), MAX_FILE_SIZE, MAX_FILE_SIZE + 1}

Messages ==
    {[kind |-> "text", text |-> s] : s \in SeqsUpTo(TextChars, MaxText)}
    \cup UNION { {[kind |-> "document", file_size |-> n, mime_type |-> m, data |-> d] :
                     n \in FileSizes(d), m \in MimeTypes} :
                 d \in SeqsUpTo(ByteVals, MaxBytes) }

(***************************************************************************)
(* extract_queries_from_text                                               *)
(***************************************************************************)
\* line 138
IsQueryLineNoComment(line) == line # <<>>

IsQueryLine(line) == line # <<>> /\ ~StartsWith(line, "#")

\* the lines taken as they are
CollectAsTheyAre(lines) == lines

\* lines 136-139
RECURSIVE CollectQueries(_)
CollectQueries(lines) ==
    IF lines = <<>> THEN <<>>
    ELSE LET line == Strip(Head(lines))
         IN  (IF IsQueryLine(line) THEN <<line>> ELSE <<>>) \o CollectQueries(Tail(lines))

\* lines 130-141
extract_queries_from_text(text) ==
    IF text = <<>> THEN <<>> ELSE CollectQueries(SplitLines(Strip(text)))

(***************************************************************************)
(* extract_queries_from_file                                               *)
(***************************************************************************)
\* line 166
encodings == <<"utf-8", "utf-8-sig", "windows-1251", "cp1251">>

\* the loop of lines 169-175 without its break
RECURSIVE DecodeFromNoBreak(_, _)
DecodeFromNoBreak(k, bs) ==
    IF k > Len(encodings) THEN NoneVal
    ELSE LET later == DecodeFromNoBreak(k + 1, bs)
         IN  IF later # NoneVal THEN later
             ELSE IF Decode(encodings[k], bs).ok
                  THEN [content |-> Decode(encodings[k], bs).text,
                        encoding |-> encodings[k]]
                  ELSE NoneVal

\* lines 169-175: the content under the first encoding, from the k-th on,
\* that decodes the bytes; NoneVal when none does
RECURSIVE DecodeFrom(_, _)
DecodeFrom(k, bs) ==
    IF k > Len(encodings) THEN NoneVal
    ELSE IF Decode(encodings[k], bs).ok
         THEN [content |-> Decode(encodings[k], bs).text, encoding |-> encodings[k]]
         ELSE DecodeFrom(k + 1, bs)

\* the ceiling itself rejected
FileTooLargeAtCeiling(document) ==
    document.file_size # 0 /\ document.file_size >= MAX_FILE_SIZE

\* line 149
FileTooLarge(document) == document.file_size # 0 /\ document.file_size > MAX_FILE_SIZE

\* line 154
UnsupportedType(document) ==
    document.mime_type \notin {"text/plain", "application/octet-stream"}

\* a return None of extract_queries_from_file, and lines 201-202
GiveUp(t, why) ==
    /\ Log(t, [ev |-> "reply", what |-> why])
    /\ pc' = [pc EXCEPT ![t] = "done"]

\* the size check replying without returning
CheckFileNoReturn(t) ==
    /\ pc[t] = "ef_check"
    /\ IF FileTooLarge(message[t])
       THEN /\ Log(t, [ev |-> "reply", what |-> "FileTooLarge"])
            /\ pc' = [pc EXCEPT ![t] = "ef_download"]
       ELSE IF UnsupportedType(message[t])
            THEN GiveUp(t, "UnsupportedType")
            ELSE pc' = [pc EXCEPT ![t] = "ef_download"] /\ UNCHANGED trace
    /\ UNCHANGED <<caller, message, content, queries, i, header_written, processed, output,
                   xml_data, status, ret, odd>>

\* lines 148-156
CheckFile(t) ==
    /\ pc[t] = "ef_check"
    /\ IF FileTooLarge(message[t])
       THEN GiveUp(t, "FileTooLarge")
       ELSE IF UnsupportedType(message[t])
            THEN GiveUp(t, "UnsupportedType")
            ELSE pc' = [pc EXCEPT ![t] = "ef_download"] /\ UNCHANGED trace
    /\ UNCHANGED <<caller, message, content, queries, i, header_written, processed, output,
                   xml_data, status, ret, odd>>

\* lines 160-163, and 183-186 when the download raises
Download(t) ==
    /\ pc[t] = "ef_download"
    /\ \E got \in BOOLEAN :
         IF got
         THEN /\ Log(t, [ev |-> "download"])
              /\ pc' = [pc EXCEPT ![t] = "ef_decode"]
         ELSE GiveUp(t, "FileReadError")
    /\ UNCHANGED <<caller, message, content, queries, i, header_written, processed, output,
                   xml_data, status, ret, odd>>

\* lines 165-181
DecodeFile(t) ==
    /\ pc[t] = "ef_decode"
    /\ LET decoded == DecodeFrom(1, message[t].data)
       IN  /\ content' = [content EXCEPT ![t] = decoded]
           /\ IF decoded = NoneVal
              THEN GiveUp(t, "UndecodableContent") /\ UNCHANGED queries
              ELSE /\ queries' = [queries EXCEPT ![t] =
                                     extract_queries_from_text(decoded.content)]
                   /\ pc' = [pc EXCEPT ![t] = "hm_check"]
                   /\ UNCHANGED trace
    /\ UNCHANGED <<caller, message, i, header_written, processed, output,
                   xml_data, status, ret, odd>>

(***************************************************************************)
(* handle_message                                                          *)
(***************************************************************************)
\* line 232
Filename(qs, done) == [prefix |-> "search_results", count |-> Len(qs)]

\* line 237
Caption(qs, done) == [what |-> "Done", count |-> Len(qs)]

\* what sending the result may do: it goes through, edit_text raises,
\* answer_document raises
SendResults == {"ok", "edit_failed", "TelegramNetworkError"}

\* lines 192-200
ReadMessage(t) ==
    /\ pc[t] = "hm_entry"
    /\ IF /\ message[t].kind = "text" /\ message[t].text # <<>>
          /\ ~StartsWith(message[t].text, "/")
       THEN /\ queries' = [queries EXCEPT ![t] = extract_queries_from_text(message[t].text)]
            /\ pc' = [pc EXCEPT ![t] = "hm_check"]
       ELSE IF message[t].kind = "document"
            THEN pc' = [pc EXCEPT ![t] = "ef_check"] /\ UNCHANGED queries
            ELSE pc' = [pc EXCEPT ![t] = "hm_check"] /\ UNCHANGED queries
    /\ UNCHANGED <<caller, message, content, i, header_written, processed, output,
                   xml_data, status, ret, odd, trace>>

\* lines 205-221
CheckQueries(t) ==
    /\ pc[t] = "hm_check"
    /\ IF queries[t] = <<>>
       THEN GiveUp(t, "NoQueries")
       ELSE /\ Log(t, [ev |-> "answer", what |-> "Starting", count |-> Len(queries[t])])
            /\ pc' = [pc EXCEPT ![t] = "pq_entry"]
    /\ UNCHANGED <<caller, message, content, queries, i, header_written, processed, output,
                   xml_data, status, ret, odd>>

\* lines 223-254
SendResult(t) ==
    /\ pc[t] = "hm_result"
    /\ IF ret[t] = NoneVal
       THEN UNCHANGED trace
       ELSE \E r \in SendResults :
              CASE r = "ok" ->
                     Log(t, [ev |-> "answer_document",
                             filename |-> Filename(queries[t], processed[t]),
                             caption |-> Caption(queries[t], processed[t]),
                             document |-> ret[t]])
                [] r = "edit_failed" ->
                     Log(t, [ev |-> "reply", what |-> "SendError"])
                [] r = "TelegramNetworkError" ->
                     Log(t, [ev |-> "reply", what |-> "SendNetworkError"])
    /\ pc' = [pc EXCEPT ![t] = "done"]
    /\ UNCHANGED <<caller, message, content, queries, i, header_written, processed, output,
                   xml_data, status, ret, odd>>

(***************************************************************************)
(* The event loop                                                          *)
(***************************************************************************)
\* no task is running
NoTask == 0

\* the calls of the trace that are awaited and give the loop to other tasks;
\* a.search_xmlriver (line 81) is called without await
AwaitedEvents == {"reply", "download", "answer", "answer_document"}

\* a step of task t leaves it suspended: at `await message.edit_text` (line
\* 99), at `await asyncio.sleep` (line 105), in an awaited call of the
\* transport, or at its end
Suspends(t) ==
    \/ pc'[t] \in {"status", "sleep", "done"}
    \/ /\ Len(trace'[t]) > Len(trace[t])
       /\ trace'[t][Len(trace'[t])].ev \in AwaitedEvents

\* a step of task t calls a.search_xmlriver (line 81)
IssuesLookup(t) ==
    /\ Len(trace'[t]) > Len(trace[t])
    /\ trace'[t][Len(trace'[t])].ev = "lookup"

\* a task runs when the loop is free or it holds the loop, and keeps the loop
\* until it is suspended; a cancelled task does not go on
Run(t) ==
    /\ current \in {NoTask, t}
    /\ ~cancelled[t]
    /\ current' = IF Suspends(t) THEN NoTask ELSE t
    /\ yielded' = [yielded EXCEPT ![t] =
                      IF Suspends(t) THEN TRUE
                      ELSE IF IssuesLookup(t) THEN FALSE ELSE @]
    /\ UNCHANGED cancelled

(***************************************************************************)
(* Specification                                                           *)
(***************************************************************************)
TheTask == 1

InitDirect(t) ==
    /\ caller = (t :> "direct")
    /\ message = (t :> NoneVal)
    /\ pc = (t :> "pq_entry")
    /\ \E qs \in Batches : queries = (t :> qs) /\ odd = (t :> OddCount(qs))
    /\ i = (t :> 0)
    /\ header_written = (t :> FALSE)
    /\ processed = (t :> 0)
    /\ output = (t :> <<>>)
    /\ xml_data = (t :> NoneVal)
    /\ status = (t :> "Idle")
    /\ ret = (t :> NoneVal)
    /\ trace = (t :> <<>>)
    /\ content = (t :> NoneVal)
    /\ cancelled = (t :> FALSE)
    /\ current = NoTask
    /\ yielded = (t :> FALSE)

InitHandler(t) ==
    /\ caller = (t :> "handler")
    /\ pc = (t :> "hm_entry")
    /\ \E m \in Messages : message = (t :> m)
    /\ queries = (t :> <<>>)
    /\ odd = (t :> 0)
    /\ i = (t :> 0)
    /\ header_written = (t :> FALSE)
    /\ processed = (t :> 0)
    /\ output = (t :> <<>>)
    /\ xml_data = (t :> NoneVal)
    /\ status = (t :> "Idle")
    /\ ret = (t :> NoneVal)
    /\ trace = (t :> <<>>)
    /\ content = (t :> NoneVal)
    /\ cancelled = (t :> FALSE)
    /\ current = NoTask
    /\ yielded = (t :> FALSE)

Init == InitDirect(TheTask) \/ InitHandler(TheTask)

Next ==
    \/ \E t \in Tasks : CheckBatchSize(t) /\ Run(t)
    \/ \E t \in Tasks : StartRun(t) /\ Run(t)
    \/ \E t \in Tasks : NextQuery(t) /\ Run(t)
    \/ \E t \in Tasks : Lookup(t) /\ Run(t)
    \/ \E t \in Tasks : WriteHeader(t) /\ Run(t)
    \/ \E t \in Tasks : WriteRow(t) /\ Run(t)
    \/ \E t \in Tasks : UpdateStatus(t) /\ Run(t)
    \/ \E t \in Tasks : Pace(t) /\ Run(t)
    \/ \E t \in Tasks : Finish(t) /\ Run(t)
    \/ \E t \in Tasks : ReadMessage(t) /\ Run(t)
    \/ \E t \in Tasks : CheckFile(t) /\ Run(t)
    \/ \E t \in Tasks : Download(t) /\ Run(t)
    \/ \E t \in Tasks : DecodeFile(t) /\ Run(t)
    \/ \E t \in Tasks : CheckQueries(t) /\ Run(t)
    \/ \E t \in Tasks : SendResult(t) /\ Run(t)

Spec == Init /\ [][Next]_vars

(***************************************************************************)
(* Reading the state                                                       *)
(***************************************************************************)
\* process_queries has returned
Returned(t) == status[t] \in {"BatchTooLarge", "Completed", "EmptyResult", "Aborted"}

\* the loop of process_queries ran to its end
RanThrough(t) == status[t] \in {"Completed", "EmptyResult"}

Events(tr, kind) == SelectSeq(tr, LAMBDA e : e.ev = kind)

\* the lookups of a task, in the order they were issued
Lookups(t) == Events(trace[t], "lookup")

\* the indices of the queries that are not empty after trimming, ascending
NonEmptyIndices(qs) ==
    SelectSeq([k \in 1..Len(qs) |-> k], LAMBDA k : Strip(qs[k]) # <<>>)

\* the lookups among ls that led to a row: the lookup returned a record whose
\* row derives, and a header was derived from it or from a record before it
RowsDue(ls) ==
    SelectSeq(ls, LAMBDA e :
        /\ e.result \in RecordKinds \ {"no_row"}
        /\ \E d \in Range(ls) : d.i =< e.i /\ d.result \in RecordKinds \ {"no_header"})

IsHeaderRow(line) == "columns" \in DOMAIN line

IsDataRow(line) == "query" \in DOMAIN line

DataRows(t) == SelectSeq(output[t], IsDataRow)

HeaderRows(t) == SelectSeq(output[t], IsHeaderRow)

(***************************************************************************)
(* C1: process_queries looks up every query that is non-empty after        *)
(* trimming exactly once, in input order, with the trimmed query: a lookup *)
(* that raises causes no retry, skips no later query and does not end the  *)
(* run (which is aborted only before the first lookup).                    *)
(***************************************************************************)
C1_LookupOncePerQuery ==
    \A t \in Tasks :
        /\ status[t] = "Aborted" => Lookups(t) = <<>>
        /\ RanThrough(t) =>
             LET ls == Lookups(t)
                 idx == NonEmptyIndices(queries[t])
             IN  /\ Len(ls) = Len(idx)
                 /\ \A k \in 1..Len(ls) :
                       ls[k].i = idx[k] /\ ls[k].query = Strip(queries[t][idx[k]])

\* a finished run in which a lookup raised and the next query was looked up
C1_Witness ==
    \E t \in Tasks :
        /\ RanThrough(t)
        /\ \E k \in 1..(Len(Lookups(t)) - 1) :
              Lookups(t)[k].result = "raise" /\ Lookups(t)[k + 1].result # "raise"

(***************************************************************************)
(* C2: when the loop of process_queries has run to its end, processed is   *)
(* the number of queries whose lookup returned and whose row was derived,  *)
(* and the buffer holds one data row for each of them, in the order of the *)
(* queries, and none for a failed or skipped query.                        *)
(***************************************************************************)
C2_RowPerSuccess ==
    \A t \in Tasks :
        RanThrough(t) =>
            LET due == RowsDue(Lookups(t))
                rows == DataRows(t)
            IN  /\ processed[t] = Len(due)
                /\ Len(rows) = Len(due)
                /\ \A k \in 1..Len(due) :
                      rows[k] = get_row([kind |-> due[k].result],
                                        Strip(queries[t][due[k].i]))

\* a finished run with a failed query between two that have a row
C2_Witness ==
    \E t \in Tasks :
        /\ RanThrough(t)
        /\ Len(DataRows(t)) >= 2
        /\ \E k \in 2..(Len(Lookups(t)) - 1) :
              /\ Lookups(t)[k].result \in {"raise", "no_row"}
              /\ Lookups(t)[k - 1].result = "plain"
              /\ Lookups(t)[k + 1].result = "plain"

(***************************************************************************)
(* C3: a list of more than MAX_QUERIES queries makes process_queries       *)
(* signal BatchTooLarge without entering Running and without any lookup;   *)
(* a list of exactly MAX_QUERIES queries is accepted and its loop runs     *)
(* over all of them.                                                       *)
(***************************************************************************)
C3_BatchTooLarge ==
    \A t \in Tasks :
        /\ Len(queries[t]) > MAX_QUERIES =>
              /\ status[t] \in {"Idle", "BatchTooLarge"}
              /\ Lookups(t) = <<>>
              /\ pc[t] \in {"pq_entry", "done", "hm_result"}
              /\ Returned(t) =>
                    /\ ret[t] = NoneVal
                    /\ trace[t][Len(trace[t])] = [ev |-> "reply", what |-> "TooMany"]
        /\ Len(queries[t]) = MAX_QUERIES =>
              /\ status[t] # "BatchTooLarge"
              /\ Returned(t) /\ status[t] # "Aborted" =>
                    /\ RanThrough(t)
                    /\ i[t] = MAX_QUERIES + 1
                    /\ Len(Lookups(t)) = Len(NonEmptyIndices(queries[t]))

\* a list of MAX_QUERIES + 1 queries was rejected
C3_Witness ==
    \E t \in Tasks :
        /\ Len(queries[t]) = MAX_QUERIES + 1
        /\ status[t] = "BatchTooLarge"
        /\ pc[t] = "done"

\* a list of exactly MAX_QUERIES queries was processed to the end
C3_WitnessAccepted ==
    \E t \in Tasks :
        /\ Len(queries[t]) = MAX_QUERIES
        /\ status[t] = "Completed"
        /\ Len(Lookups(t)) = 1

(***************************************************************************)
(* C4: process_queries returns a payload exactly when processed > 0.  With *)
(* processed = 0 at the end of the loop it signals EmptyResult and returns *)
(* None, also when a header is in the buffer; with processed > 0 it        *)
(* reaches Completed and returns the encoded, non-empty buffer.            *)
(***************************************************************************)
C4_PayloadIffProcessed ==
    \A t \in Tasks :
        Returned(t) =>
            /\ ret[t] # NoneVal <=> processed[t] > 0
            /\ RanThrough(t) /\ processed[t] = 0 =>
                  /\ status[t] = "EmptyResult"
                  /\ trace[t][Len(trace[t])] = [ev |-> "reply", what |-> "EmptyResult"]
            /\ processed[t] > 0 =>
                  /\ status[t] = "Completed"
                  /\ ret[t] = Encode(output[t])
                  /\ ret[t].bom
                  /\ ret[t].text # <<>>

\* no query succeeded, a header is in the buffer, nothing is returned
C4_Witness ==
    \E t \in Tasks :
        /\ status[t] = "EmptyResult"
        /\ processed[t] = 0
        /\ header_written[t]
        /\ output[t] # <<>>
        /\ ret[t] = NoneVal

(***************************************************************************)
(* C5: in every state the buffer holds at most one header row, the header  *)
(* row is the first row, data rows are in the buffer only when             *)
(* header_written is true; no step writes a data row while header_written  *)
(* is false, and no step takes header_written from true to false.         *)
(***************************************************************************)
C5_BufferShape ==
    \A t \in Tasks :
        /\ Len(HeaderRows(t)) =< 1
        /\ \A k \in 1..Len(output[t]) : IsHeaderRow(output[t][k]) => k = 1
        /\ DataRows(t) # <<>> => header_written[t] /\ IsHeaderRow(output[t][1])
        /\ header_written[t] => Len(HeaderRows(t)) = 1

C5_Step ==
    \A t \in Tasks :
        /\ header_written[t] => header_written'[t]
        /\ Len(SelectSeq(output'[t], IsDataRow)) > Len(DataRows(t)) => header_written[t]

C5_HeaderOnce == [](C5_BufferShape) /\ [][C5_Step]_vars

\* a buffer with its header and the rows of two records, the second of which
\* implies other columns
C5_Witness ==
    \E t \in Tasks :
        /\ Len(DataRows(t)) >= 2
        /\ header_written[t]
        /\ output[t][1] = [columns |-> "plain"]
        /\ output[t][3].values = "wide"

(***************************************************************************)
(* C6, as claimed: in a Completed output the header row is the header      *)
(* derived from the record of the first query that has a data row.         *)
(***************************************************************************)
C6_HeaderOfFirstRow ==
    \A t \in Tasks :
        status[t] = "Completed" =>
            ret[t].text[1] = get_header([kind |-> RowsDue(Lookups(t))[1].result])

\* the lookups that returned a record from which a header derives
HeadersDue(ls) == SelectSeq(ls, LAMBDA e : e.result \in RecordKinds \ {"no_header"})

(***************************************************************************)
(* C6, amended: in a Completed output the header row is the header derived *)
(* from the record of the first query whose lookup returned a record with  *)
(* a derivable header, whether or not that query got a data row; it is the *)
(* first row and every other row of the output is a data row, whatever     *)
(* headers later records would imply.                                      *)
(***************************************************************************)
C6_HeaderOfFirstRecord ==
    \A t \in Tasks :
        status[t] = "Completed" =>
            /\ ret[t].text[1] = get_header([kind |-> HeadersDue(Lookups(t))[1].result])
            /\ \A k \in 2..Len(ret[t].text) : IsDataRow(ret[t].text[k])

\* a Completed output whose header comes from a record that has no row
C6_Witness ==
    \E t \in Tasks :
        /\ status[t] = "Completed"
        /\ Lookups(t)[1].result = "no_row"
        /\ ret[t].text[1] = [columns |-> "no_row"]
        /\ ret[t].text[2].values # "no_row"

(***************************************************************************)
(* C7: between any two consecutive lookups of a run there is exactly one   *)
(* pacing delay, and a delay follows the last lookup too: the delay is     *)
(* taken after every looked-up query, whether the lookup raised or not.    *)
(***************************************************************************)
C7_PaceAfterEveryLookup ==
    \A t \in Tasks :
        \A a \in 1..Len(trace[t]) :
            trace[t][a].ev = "lookup" =>
                \A b \in (a + 1)..(Len(trace[t]) + 1) :
                    /\ \A p \in (a + 1)..(b - 1) : trace[t][p].ev # "lookup"
                    /\ \/ b =< Len(trace[t]) /\ trace[t][b].ev = "lookup"
                       \/ b = Len(trace[t]) + 1 /\ Returned(t)
                    => Cardinality({p \in (a + 1)..(b - 1) : trace[t][p].ev = "sleep"}) = 1

(***************************************************************************)
(* C8: every status update of a run shows processed/total: the number of   *)
(* queries successfully processed so far, and the number of queries of the *)
(* batch.                                                                  *)
(***************************************************************************)
C8_StatusShowsProcessed ==
    \A t \in Tasks :
        \A p \in 1..Len(trace[t]) :
            trace[t][p].ev = "edit_text" =>
                /\ trace[t][p].text.first =
                      Len(RowsDue(Events(SubSeq(trace[t], 1, p), "lookup")))
                /\ trace[t][p].text.second = Len(queries[t])

(***************************************************************************)
(* C9: the name and the caption of the attachment carry the number of      *)
(* successfully processed queries of the run.                              *)
(***************************************************************************)
C9_AttachmentCountsProcessed ==
    \A t \in Tasks :
        \A p \in 1..Len(trace[t]) :
            trace[t][p].ev = "answer_document" =>
                /\ trace[t][p].filename.count = processed[t]
                /\ trace[t][p].caption.count = processed[t]

AcquisitionFailures ==
    {"FileTooLarge", "UnsupportedType", "UndecodableContent", "FileReadError"}

\* the file of the message cannot be acquired, by what it is
Unacquirable(m) ==
    \/ m.file_size > 10 * 1024 * 1024
    \/ m.mime_type \notin {"text/plain", "application/octet-stream"}
    \/ \A k \in 1..Len(encodings) : ~Decode(encodings[k], m.data).ok

LastEvent(t) == trace[t][Len(trace[t])]

(***************************************************************************)
(* C10: when the file of a message cannot be acquired (too large, wrong    *)
(* type, not decodable, download raised), the handler replies with the     *)
(* failure and returns: process_queries is not entered, no lookup is       *)
(* issued, nothing is sent.                                                *)
(***************************************************************************)
C10_AcquisitionFailureStops ==
    \A t \in Tasks :
        caller[t] = "handler" /\ message[t].kind = "document" =>
            LET failed == \E e \in Range(trace[t]) :
                              e.ev = "reply" /\ e.what = "FileReadError"
            IN  Unacquirable(message[t]) \/ failed =>
                    /\ status[t] = "Idle"
                    /\ pc[t] \in {"hm_entry", "ef_check", "ef_download", "ef_decode", "done"}
                    /\ Lookups(t) = <<>>
                    /\ Events(trace[t], "answer_document") = <<>>
                    /\ failed => pc[t] = "done"
                    /\ pc[t] = "done" =>
                          /\ LastEvent(t).ev = "reply"
                          /\ LastEvent(t).what \in AcquisitionFailures
                          /\ Len(Events(trace[t], "reply")) = 1

\* a file that was downloaded, could not be decoded, and was reported
C10_Witness ==
    \E t \in Tasks :
        /\ caller[t] = "handler"
        /\ pc[t] = "done"
        /\ Len(trace[t]) = 2
        /\ trace[t][1].ev = "download"
        /\ trace[t][2] = [ev |-> "reply", what |-> "UndecodableContent"]

(***************************************************************************)
(* extract_queries_from_text on its own                                    *)
(***************************************************************************)
\* the length of the text given to extract_queries_from_text
MaxExtractText == 5

\* the characters of the text: a letter, a blank, the comment sign and three
\* line boundaries of str.splitlines()
ExtractChars == {"a", " ", "#", "\n", "\r", "\f"}

\* a call of extract_queries_from_text(text), lines 130-141
ExtractText(t) ==
    /\ pc[t] = "ex_entry"
    /\ queries' = [queries EXCEPT ![t] = extract_queries_from_text(message[t].text)]
    /\ pc' = [pc EXCEPT ![t] = "done"]
    /\ UNCHANGED <<caller, message, content, i, header_written, processed, output,
                   xml_data, status, ret, odd, trace>>

InitText ==
    /\ caller = (TheTask :> "extract")
    /\ pc = (TheTask :> "ex_entry")
    /\ \E text \in SeqsUpTo(ExtractChars, MaxExtractText) :
           message = (TheTask :> [kind |-> "text", text |-> text])
    /\ queries = (TheTask :> <<>>)
    /\ odd = (TheTask :> 0)
    /\ i = (TheTask :> 0)
    /\ header_written = (TheTask :> FALSE)
    /\ processed = (TheTask :> 0)
    /\ output = (TheTask :> <<>>)
    /\ xml_data = (TheTask :> NoneVal)
    /\ status = (TheTask :> "Idle")
    /\ ret = (TheTask :> NoneVal)
    /\ trace = (TheTask :> <<>>)
    /\ content = (TheTask :> NoneVal)
    /\ cancelled = (TheTask :> FALSE)
    /\ current = NoTask
    /\ yielded = (TheTask :> FALSE)

NextText == \E t \in Tasks : ExtractText(t) /\ Run(t)

SpecText == InitText /\ [][NextText]_vars

\* The lines of a text, read off its positions: a line starts at position 1
\* and after every line boundary ("\r\n" being one boundary), and runs up to
\* the next boundary; no line starts after the end of the text.
EndsBoundary(s, k) ==
    /\ s[k] \in LineEnds
    /\ ~(s[k] = "\r" /\ k < Len(s) /\ s[k + 1] = "\n")

LineStarts(s) ==
    {p \in 1..Len(s) : p = 1 \/ EndsBoundary(s, p - 1)}

LineFrom(s, p) ==
    LET stops == {q \in p..Len(s) : s[q] \in LineEnds}
        stop == IF stops = {} THEN Len(s) + 1
                ELSE CHOOSE q \in stops : \A r \in stops : q =< r
    IN  SubSeq(s, p, stop - 1)

LinesOf(s) ==
    LET starts == LineStarts(s)
        nth(j) == CHOOSE p \in starts : Cardinality({q \in starts : q < p}) = j - 1
    IN  [j \in 1..Cardinality(starts) |-> LineFrom(s, nth(j))]

\* a line without its surrounding whitespace, by positions
Trimmed(line) ==
    LET inked == {k \in 1..Len(line) : ~IsSpace(line[k])}
    IN  IF inked = {} THEN <<>>
        ELSE SubSeq(line, CHOOSE k \in inked : \A r \in inked : k =< r,
                          CHOOSE k \in inked : \A r \in inked : k >= r)

TrimmedLines(s) == [j \in 1..Len(LinesOf(s)) |-> Trimmed(LinesOf(s)[j])]

IsWanted(line) == line # <<>> /\ line[1] # "#"

\* the lines of the text that are not blank and whose first character is not
\* the comment sign
NonBlankNonComment(s) ==
    {j \in 1..Len(LinesOf(s)) : Trimmed(LinesOf(s)[j]) # <<>> /\ LinesOf(s)[j][1] # "#"}

(***************************************************************************)
(* C11: extract_queries_from_text returns the lines of the text, in order, *)
(* each without its surrounding whitespace, that are then not empty and do *)
(* not begin with '#'; the empty text gives the empty list, and the result *)
(* is never longer than the number of lines that are neither blank nor     *)
(* comments.                                                               *)
(***************************************************************************)
C11_ExtractIsFilteredLines ==
    \A t \in Tasks :
        caller[t] = "extract" /\ pc[t] = "done" =>
            LET text == message[t].text
            IN  /\ queries[t] = SelectSeq(TrimmedLines(text), IsWanted)
                /\ text = <<>> => queries[t] = <<>>
                /\ Len(queries[t]) =< Cardinality(NonBlankNonComment(text))

\* a text of two lines parted by "\r\n": a padded query and a comment
C11_Witness ==
    \E t \in Tasks :
        /\ caller[t] = "extract" /\ pc[t] = "done"
        /\ message[t].text = <<" ", "a", "\r", "\n", "#">>
        /\ queries[t] = << <<"a">> >>

(***************************************************************************)
(* extract_queries_from_file on its own                                    *)
(***************************************************************************)
\* the length of the content of the file, in bytes
MaxFileBytes == 4

\* the bytes of the file: a letter, a lead byte of UTF-8 that is a letter of
\* cp1251, the byte cp1251 does not assign (a continuation byte of UTF-8),
\* and the three bytes of the byte order mark
FileBytes == {97, 208, 152, 239, 187, 191}

InitFile ==
    /\ caller = (TheTask :> "handler")
    /\ pc = (TheTask :> "hm_entry")
    /\ \E d \in SeqsUpTo(FileBytes, MaxFileBytes) :
         \E n \in FileSizes(d), m \in MimeTypes :
           message = (TheTask :> [kind |-> "document", file_size |-> n,
                                  mime_type |-> m, data |-> d])
    /\ queries = (TheTask :> <<>>)
    /\ odd = (TheTask :> 0)
    /\ i = (TheTask :> 0)
    /\ header_written = (TheTask :> FALSE)
    /\ processed = (TheTask :> 0)
    /\ output = (TheTask :> <<>>)
    /\ xml_data = (TheTask :> NoneVal)
    /\ status = (TheTask :> "Idle")
    /\ ret = (TheTask :> NoneVal)
    /\ trace = (TheTask :> <<>>)
    /\ content = (TheTask :> NoneVal)
    /\ cancelled = (TheTask :> FALSE)
    /\ current = NoTask
    /\ yielded = (TheTask :> FALSE)

\* handle_message up to the return of extract_queries_from_file
NextFile ==
    \/ \E t \in Tasks : ReadMessage(t) /\ Run(t)
    \/ \E t \in Tasks : CheckFile(t) /\ Run(t)
    \/ \E t \in Tasks : Download(t) /\ Run(t)
    \/ \E t \in Tasks : DecodeFile(t) /\ Run(t)

SpecFile == InitFile /\ [][NextFile]_vars

\* the file of the task was downloaded and the decoding loop is over
Decoded(t) ==
    /\ message[t].kind = "document"
    /\ Events(trace[t], "download") # <<>>
    /\ pc[t] # "ef_decode"

\* the candidates, by their place in the list, under which the bytes decode
Decodable(bs) == {k \in 1..Len(encodings) : Decode(encodings[k], bs).ok}

Signalled(t, why) == [ev |-> "reply", what |-> why] \in Range(trace[t])

(***************************************************************************)
(* C12: the decoder of the file returns the decoding under the earliest    *)
(* encoding of utf-8, utf-8-sig, windows-1251, cp1251 under which the      *)
(* bytes decode, and signals UndecodableContent if and only if the bytes   *)
(* decode under none of them.                                              *)
(***************************************************************************)
C12_EarliestEncoding ==
    /\ encodings = <<"utf-8", "utf-8-sig", "windows-1251", "cp1251">>
    /\ \A t \in Tasks :
          /\ Decoded(t) =>
                LET ok == Decodable(message[t].data)
                    first == CHOOSE k \in ok : \A r \in ok : k =< r
                IN  IF ok = {}
                    THEN content[t] = NoneVal /\ pc[t] = "done"
                    ELSE /\ content[t] # NoneVal
                         /\ content[t].encoding = encodings[first]
                         /\ content[t].content = Decode(encodings[first], message[t].data).text
          /\ Signalled(t, "UndecodableContent") <=>
                Decoded(t) /\ Decodable(message[t].data) = {}

\* bytes that are not UTF-8 and are read as windows-1251
C12_Witness ==
    \E t \in Tasks :
        /\ Decoded(t)
        /\ message[t].data = <<208, 97>>
        /\ content[t] # NoneVal
        /\ content[t].encoding = "windows-1251"

\* bytes no candidate decodes, reported
C12_WitnessUndecodable ==
    \E t \in Tasks :
        /\ Decoded(t)
        /\ message[t].data = <<208, 152, 152>>
        /\ content[t] = NoneVal
        /\ Signalled(t, "UndecodableContent")

(***************************************************************************)
(* Two batches on one event loop                                           *)
(***************************************************************************)
\* the task of a second update, handled while the first is not finished
OtherTask == 2

ConcTasks == {TheTask, OtherTask}

\* per batch, the number of lookups and status updates that do not go the
\* plain way
MaxConcOdd == 2

\* the lengths of the lists of the two batches
ConcLens == {1, 2, PROGRESS_EVERY}

\* the queries a batch looks up, at the end of its list
ConcLookups == 2

\* lists of one and two plain queries, and one long enough for a status
\* update: blank queries and two plain ones at the end
ConcBatches ==
    {[k \in 1..n |-> IF k > n - ConcLookups THEN PlainQuery(k) ELSE <<" ">>] :
        n \in ConcLens}

InitConc ==
    /\ caller = [t \in ConcTasks |-> "direct"]
    /\ message = [t \in ConcTasks |-> NoneVal]
    /\ pc = [t \in ConcTasks |-> "pq_entry"]
    /\ queries \in [ConcTasks -> ConcBatches]
    /\ odd = [t \in ConcTasks |-> MaxOdd - MaxConcOdd]
    /\ i = [t \in ConcTasks |-> 0]
    /\ header_written = [t \in ConcTasks |-> FALSE]
    /\ processed = [t \in ConcTasks |-> 0]
    /\ output = [t \in ConcTasks |-> <<>>]
    /\ xml_data = [t \in ConcTasks |-> NoneVal]
    /\ status = [t \in ConcTasks |-> "Idle"]
    /\ ret = [t \in ConcTasks |-> NoneVal]
    /\ trace = [t \in ConcTasks |-> <<>>]
    /\ content = [t \in ConcTasks |-> NoneVal]
    /\ cancelled = [t \in ConcTasks |-> FALSE]
    /\ current = NoTask
    /\ yielded = [t \in ConcTasks |-> FALSE]

\* the steps of process_queries
NextBatch ==
    \/ \E t \in Tasks : CheckBatchSize(t) /\ Run(t)
    \/ \E t \in Tasks : StartRun(t) /\ Run(t)
    \/ \E t \in Tasks : NextQuery(t) /\ Run(t)
    \/ \E t \in Tasks : Lookup(t) /\ Run(t)
    \/ \E t \in Tasks : WriteHeader(t) /\ Run(t)
    \/ \E t \in Tasks : WriteRow(t) /\ Run(t)
    \/ \E t \in Tasks : UpdateStatus(t) /\ Run(t)
    \/ \E t \in Tasks : Pace(t) /\ Run(t)
    \/ \E t \in Tasks : Finish(t) /\ Run(t)

SpecConc == InitConc /\ [][NextBatch]_vars

(***************************************************************************)
(* C13: a running batch gives the loop to other batches between any two    *)
(* of its lookups: it never issues a lookup without having been suspended  *)
(* since its last one.                                                     *)
(***************************************************************************)
C13_YieldsBetweenLookups ==
    \A t \in Tasks :
        pc[t] = "lookup" /\ Lookups(t) # <<>> => yielded[t]

\* The outcome of a batch that runs alone and gets the lookup results ls:
\* the loop body of lines 81-94 applied to one result after the other.
RECURSIVE AloneFrom(_, _)
AloneFrom(ls, st) ==
    IF ls = <<>> THEN st
    ELSE LET e == Head(ls)
             xml == [kind |-> e.result]
             withHeader ==
                 IF ~st.header_written /\ HasHeader(xml)
                 THEN [st EXCEPT !.output = Append(@, get_header(xml)),
                                 !.header_written = TRUE]
                 ELSE st
         IN  IF e.result = "raise" \/ ~withHeader.header_written
             THEN AloneFrom(Tail(ls), st)
             ELSE IF HasRow(xml)
                  THEN AloneFrom(Tail(ls),
                                 [withHeader EXCEPT !.output = Append(@, get_row(xml, e.query)),
                                                    !.processed = @ + 1])
                  ELSE AloneFrom(Tail(ls), withHeader)

Alone(ls) == AloneFrom(ls, [output |-> <<>>, header_written |-> FALSE, processed |-> 0])

\* what belongs to the run of task t
OwnState(t) ==
    <<pc[t], queries[t], i[t], header_written[t], processed[t], output[t], xml_data[t],
      status[t], ret[t], trace[t]>>

\* the two batches are both in their loops
BothRunning ==
    Cardinality(Tasks) > 1 /\ \A t \in Tasks : status[t] = "Running"

C14_OutcomeAsAlone ==
    \A t \in Tasks :
        pc[t] \notin {"header", "row"} =>
            /\ output[t] = Alone(Lookups(t)).output
            /\ header_written[t] = Alone(Lookups(t)).header_written
            /\ processed[t] = Alone(Lookups(t)).processed

C14_StepOfOne ==
    Cardinality({t \in Tasks : OwnState(t)' # OwnState(t)}) =< 1

(***************************************************************************)
(* C14: when batches run concurrently, interleaved at their suspension     *)
(* points, the processed count, the header and the rows of each batch are  *)
(* those it would have running alone with the same lookup results, and no  *)
(* step of one batch changes the buffer, the header-written flag or the    *)
(* processed count of another.                                             *)
(***************************************************************************)
C14_Independent == [](C14_OutcomeAsAlone) /\ [][C14_StepOfOne]_vars

\* two batches in their loops at once, each with rows of its own in its
\* buffer, the buffers being different
C14_Witness ==
    /\ BothRunning
    /\ \A t \in Tasks : Len(DataRows(t)) >= 1
    /\ \E t, u \in Tasks : output[t] # output[u]

(***************************************************************************)
(* Cancellation of the task of a batch                                     *)
(***************************************************************************)
\* `except Exception` (lines 107, 125, 256) catching everything, as a bare
\* `except:` does
CatchesEverything(exc) == TRUE

\* `except Exception` (lines 107, 125, 256) catches the exceptions derived
\* from Exception; asyncio.CancelledError derives from BaseException
ExceptExceptionCatches(exc) == exc # "CancelledError"

\* the host cancels the task of a running batch: the task is suspended, at
\* `await message.edit_text` (line 99) or `await asyncio.sleep` (line 105)
RequestCancel(t) ==
    /\ status[t] = "Running"
    /\ pc[t] \in {"status", "sleep"}
    /\ current # t
    /\ ~cancelled[t]
    /\ cancelled' = [cancelled EXCEPT ![t] = TRUE]
    /\ Log(t, [ev |-> "cancel", i |-> i[t]])
    /\ UNCHANGED <<pc, caller, message, content, queries, i, header_written, processed,
                   output, xml_data, status, ret, odd, current, yielded>>

\* the task resumes with asyncio.CancelledError raised at its await: caught
\* by line 107 the loop continues, otherwise the error leaves process_queries
\* (line 125) and handle_message (line 256) and nothing is returned
RaiseCancelled(t) ==
    /\ cancelled[t]
    /\ current \in {NoTask, t}
    /\ cancelled' = [cancelled EXCEPT ![t] = FALSE]
    /\ IF ExceptExceptionCatches("CancelledError")
       THEN /\ OnQueryError(t)
            /\ current' = t
            /\ UNCHANGED status
       ELSE /\ pc' = [pc EXCEPT ![t] = "done"]
            /\ status' = [status EXCEPT ![t] = "Cancelled"]
            /\ current' = NoTask
            /\ UNCHANGED i
    /\ UNCHANGED <<caller, message, content, queries, header_written, processed, output,
                   xml_data, ret, odd, trace, yielded>>

NextCancel ==
    \/ Next
    \/ \E t \in Tasks : RequestCancel(t)
    \/ \E t \in Tasks : RaiseCancelled(t)

SpecCancel == Init /\ [][NextCancel]_vars

\* the requests to cancel the task, as logged
CancelRequests(t) == Events(trace[t], "cancel")

\* no lookup of the task was issued after a request to cancel it
NoLookupAfterCancel(t) ==
    \A p, q \in 1..Len(trace[t]) :
        trace[t][p].ev = "cancel" /\ p < q => trace[t][q].ev # "lookup"

(***************************************************************************)
(* C15, as claimed: once the host has requested the cancellation of a      *)
(* running batch no lookup is started in a later iteration; the batch      *)
(* stops at the top of its next iteration and returns no payload.          *)
(***************************************************************************)
C15_StopsAtTopOfNextIteration ==
    \A t \in Tasks :
        /\ NoLookupAfterCancel(t)
        /\ status[t] = "Cancelled" =>
              /\ ret[t] = NoneVal
              /\ i[t] = CancelRequests(t)[1].i + 1

(***************************************************************************)
(* C15, amended: once the host has requested the cancellation of a running *)
(* batch no further lookup is started; the batch stops at the suspension   *)
(* point where the request found it (the status update or the pacing       *)
(* delay), within that iteration, and returns no payload: nothing is sent. *)
(***************************************************************************)
C15_StopsWhereSuspended ==
    \A t \in Tasks :
        /\ NoLookupAfterCancel(t)
        /\ cancelled[t] => pc[t] \in {"status", "sleep"}
        /\ CancelRequests(t) # <<>> /\ ~cancelled[t] =>
              /\ status[t] = "Cancelled"
              /\ pc[t] = "done"
              /\ i[t] = CancelRequests(t)[1].i
              /\ LastEvent(t).ev = "cancel"
              /\ ret[t] = NoneVal
              /\ Events(trace[t], "answer_document") = <<>>

\* a batch cancelled after the row of its first query, with its second query
\* never looked up
C15_Witness ==
    \E t \in Tasks :
        /\ status[t] = "Cancelled"
        /\ Len(queries[t]) = 2
        /\ Len(Lookups(t)) = 1
        /\ processed[t] = 1
        /\ ret[t] = NoneVal

(***************************************************************************)
(* Batches long enough for status updates                                  *)
(***************************************************************************)
\* the number of status updates a batch is long enough for
ProgressRounds == 2

ProgressLens ==
    UNION {{r * PROGRESS_EVERY, r * PROGRESS_EVERY + 1} : r \in 1..ProgressRounds}

\* blank queries, and plain ones before, at and after every multiple of
\* PROGRESS_EVERY
ProgressBatches ==
    {[k \in 1..n |-> IF k % PROGRESS_EVERY \in {0, 1, PROGRESS_EVERY - 1}
                     THEN PlainQuery(k) ELSE <<" ">>] : n \in ProgressLens}

InitProgress ==
    /\ caller = (TheTask :> "direct")
    /\ message = (TheTask :> NoneVal)
    /\ pc = (TheTask :> "pq_entry")
    /\ \E qs \in ProgressBatches : queries = (TheTask :> qs)
    /\ odd = (TheTask :> 0)
    /\ i = (TheTask :> 0)
    /\ header_written = (TheTask :> FALSE)
    /\ processed = (TheTask :> 0)
    /\ output = (TheTask :> <<>>)
    /\ xml_data = (TheTask :> NoneVal)
    /\ status = (TheTask :> "Idle")
    /\ ret = (TheTask :> NoneVal)
    /\ trace = (TheTask :> <<>>)
    /\ content = (TheTask :> NoneVal)
    /\ cancelled = (TheTask :> FALSE)
    /\ current = NoTask
    /\ yielded = (TheTask :> FALSE)

SpecProgress == InitProgress /\ [][NextBatch]_vars

\* the status updates of a task, as logged
StatusUpdates(t) == Events(trace[t], "edit_text")

\* this step is a status update of task t that fails
SinkFails(t) ==
    /\ Len(trace'[t]) > Len(trace[t])
    /\ \E p \in (Len(trace[t]) + 1)..Len(trace'[t]) :
          trace'[t][p].ev = "edit_text" /\ trace'[t][p].result # "ok"

\* a status update that fails leaves the buffer, with the row of the query
\* just processed at its end, and the count as they are, and the run Running
C16_Step ==
    \A t \in Tasks :
        SinkFails(t) =>
            /\ output'[t] = output[t]
            /\ output'[t][Len(output'[t])] =
                  get_row(xml_data[t], Strip(queries[t][i[t]]))
            /\ processed'[t] = processed[t]
            /\ status'[t] = "Running"
            /\ pc'[t] \in {"sleep", "loop"}

\* a run with a failed status update is not Aborted, runs over all its
\* queries, looks up those after the failure, and returns the rows
C16_GoesOn ==
    \A t \in Tasks :
        \A p \in 1..Len(trace[t]) :
            trace[t][p].ev = "edit_text" /\ trace[t][p].result # "ok" =>
                /\ status[t] \in {"Running", "Completed"}
                /\ Returned(t) =>
                      /\ i[t] = Len(queries[t]) + 1
                      /\ processed[t] = Len(RowsDue(Lookups(t)))
                      /\ \A k \in (trace[t][p].text.first + 1)..Len(queries[t]) :
                            Strip(queries[t][k]) # <<>> =>
                                \E q \in (p + 1)..Len(trace[t]) :
                                    trace[t][q].ev = "lookup" /\ trace[t][q].i = k
                      /\ \E r \in Range(DataRows(t)) :
                            r.query = Strip(queries[t][trace[t][p].text.first])

(***************************************************************************)
(* C16: a failure of the status update, whatever it is, does not abort the *)
(* batch: the row of the query just processed stays in the buffer, the     *)
(* processed count is not changed by it, and the run goes on with the next *)
(* query.                                                                  *)
(***************************************************************************)
C16_SinkFailureSwallowed == [](C16_GoesOn) /\ [][C16_Step]_vars

\* a run in which the status update after the 10th query failed with an
\* error other than TelegramBadRequest, and the 11th query got its row
C16_Witness ==
    \E t \in Tasks :
        /\ status[t] = "Completed"
        /\ StatusUpdates(t) # <<>>
        /\ StatusUpdates(t)[1].result = "TelegramNetworkError"
        /\ \E r \in Range(DataRows(t)) : r.query = PlainQuery(PROGRESS_EVERY)
        /\ \E r \in Range(DataRows(t)) : r.query = PlainQuery(PROGRESS_EVERY + 1)

\* the 1-based indices of the queries that were successfully processed and
\* stand at a multiple of 10, ascending
ProcessedTenths(t) ==
    SelectSeq([k \in 1..Len(RowsDue(Lookups(t))) |-> RowsDue(Lookups(t))[k].i],
              LAMBDA k : k % 10 = 0)

\* the indices of the queries after which the status was updated
UpdatedAfter(t) ==
    [k \in 1..Len(StatusUpdates(t)) |-> StatusUpdates(t)[k].text.first]

(***************************************************************************)
(* C17: during a run the status is updated exactly once after each query   *)
(* that was successfully processed and whose 1-based index is a multiple   *)
(* of 10, in their order, and after no other query (not after a query at   *)
(* such an index whose lookup failed); so there are never more status      *)
(* updates than floor(total / 10).                                         *)
(***************************************************************************)
C17_UpdateEveryTenthProcessed ==
    \A t \in Tasks :
        /\ pc[t] \notin {"status", "header", "row"} => UpdatedAfter(t) = ProcessedTenths(t)
        /\ pc[t] = "status" =>
              ProcessedTenths(t) = Append(UpdatedAfter(t), i[t])
        /\ Len(StatusUpdates(t)) =< Len(queries[t]) \div 10

\* a finished run over 20 queries: the lookup of the 10th raised, the 20th
\* was processed, and the status was updated once, after the 20th
C17_Witness ==
    \E t \in Tasks :
        /\ RanThrough(t)
        /\ Len(queries[t]) = 20
        /\ \E e \in Range(Lookups(t)) : e.i = 10 /\ e.result = "raise"
        /\ UpdatedAfter(t) = <<20>>

(***************************************************************************)
(* Termination                                                             *)
(***************************************************************************)
\* the event loop runs a task that can take a step, and every awaited call
\* comes back
SpecFair == Spec /\ WF_vars(Next)

Outcomes == {"BatchTooLarge", "Completed", "EmptyResult", "Aborted"}

\* what process_queries told the user at its end
Replies(t) == {e.what : e \in {r \in Range(trace[t]) : r.ev = "reply"}}

C18_Outcome ==
    \A t \in Tasks :
        /\ status[t] \in Outcomes \cup {"Idle", "Running"}
        /\ caller[t] = "direct" /\ pc[t] = "done" => status[t] \in Outcomes
        /\ status[t] = "BatchTooLarge" => Len(queries[t]) > MAX_QUERIES /\ ret[t] = NoneVal
        /\ status[t] = "Completed" => ret[t] # NoneVal /\ Replies(t) \cap Outcomes = {}
        /\ status[t] = "EmptyResult" =>
              ret[t] = NoneVal /\ Replies(t) \cap Outcomes = {"EmptyResult"}
        /\ status[t] = "Aborted" =>
              /\ ret[t] = NoneVal
              /\ Replies(t) \cap Outcomes = {"Aborted"}
              /\ Lookups(t) = <<>>
        /\ (\E e \in Range(Lookups(t)) : e.result = "raise") => status[t] # "Aborted"

\* the outcome of a run is final
C18_Final ==
    \A t \in Tasks : status[t] \in Outcomes => status'[t] = status[t]

(***************************************************************************)
(* C18: every run of process_queries, whatever its queries and whatever    *)
(* its lookups and status updates do, ends, in exactly one of              *)
(* BatchTooLarge, Completed, EmptyResult, Aborted; Aborted is reached only *)
(* by an error outside the try of the loop body, never after a lookup      *)
(* that raised; EmptyResult and Aborted are told with different replies.   *)
(***************************************************************************)
C18_EndsInOneOutcome ==
    /\ [](C18_Outcome)
    /\ [][C18_Final]_vars
    /\ \A t \in {TheTask} : <>(pc[t] = "done")

\* a run all of whose lookups raised: it is not Aborted, but EmptyResult
C18_Witness ==
    \E t \in Tasks :
        /\ pc[t] = "done"
        /\ status[t] = "EmptyResult"
        /\ Len(Lookups(t)) = 2
        /\ \A e \in Range(Lookups(t)) : e.result = "raise"

\* a run that ended Aborted, with its reply
C18_WitnessAborted ==
    \E t \in Tasks :
        /\ pc[t] = "done"
        /\ status[t] = "Aborted"
        /\ Replies(t) = {"Aborted"}

\* the checks of the file of the task are over
FileChecked(t) ==
    message[t].kind = "document" /\ pc[t] \notin {"hm_entry", "ef_check"}

\* the download of the file of the task was started
DownloadStarted(t) ==
    \/ pc[t] = "ef_download"
    \/ Events(trace[t], "download") # <<>>
    \/ Signalled(t, "FileReadError")

TenMiB == 10 * 1024 * 1024

TextTypes == {"text/plain", "application/octet-stream"}

(***************************************************************************)
(* C19: the file is rejected as too large exactly when its declared size   *)
(* is greater than 10 MiB (exactly 10 MiB is accepted), and as of an       *)
(* unsupported type exactly when the size passes and the declared type is  *)
(* neither text/plain nor application/octet-stream; the file is downloaded *)
(* only when both checks have passed.                                      *)
(***************************************************************************)
C19_FileChecks ==
    \A t \in Tasks :
        message[t].kind = "document" =>
            /\ Signalled(t, "FileTooLarge") <=>
                  FileChecked(t) /\ message[t].file_size > TenMiB
            /\ Signalled(t, "UnsupportedType") <=>
                  /\ FileChecked(t)
                  /\ message[t].file_size =< TenMiB
                  /\ message[t].mime_type \notin TextTypes
            /\ Signalled(t, "FileTooLarge") \/ Signalled(t, "UnsupportedType") =>
                  pc[t] = "done" /\ Len(trace[t]) = 1
            /\ DownloadStarted(t) =>
                  /\ message[t].file_size =< TenMiB
                  /\ message[t].mime_type \in TextTypes
                  /\ ~Signalled(t, "FileTooLarge")
                  /\ ~Signalled(t, "UnsupportedType")

\* a file of exactly 10 MiB was downloaded
C19_Witness ==
    \E t \in Tasks :
        /\ message[t].kind = "document"
        /\ message[t].file_size = TenMiB
        /\ Events(trace[t], "download") # <<>>

\* a file of one byte more was rejected, whatever its type
C19_WitnessTooLarge ==
    \E t \in Tasks :
        /\ message[t].kind = "document"
        /\ message[t].file_size = TenMiB + 1
        /\ message[t].mime_type = "image/png"
        /\ trace[t] = <<[ev |-> "reply", what |-> "FileTooLarge"]>>

\* the queries of the task come from extract_queries_from_text
Extracted(t) == caller[t] = "handler" /\ pc[t] \notin {"hm_entry", "ef_check", "ef_download", "ef_decode"}

C20_NonEmpty ==
    \A t \in Tasks :
        Extracted(t) =>
            /\ \A k \in 1..Len(queries[t]) :
                  Strip(queries[t][k]) # <<>> /\ Strip(queries[t][k]) = queries[t][k]
            /\ Lookups(t) # <<>> => Lookups(t)[Len(Lookups(t))].i = Len(Lookups(t))
            /\ RanThrough(t) => Len(Lookups(t)) = Len(queries[t])

\* the loop of a run fed by the handler never takes the `continue` of line 75
C20_NoSkip ==
    \A t \in Tasks :
        caller[t] = "handler" /\ pc[t] = "loop" /\ i'[t] = i[t] + 1 => pc'[t] # "loop"

(***************************************************************************)
(* C20: every query extract_queries_from_text produces is non-empty after  *)
(* trimming; so in a run of process_queries over the extracted queries the *)
(* skip of empty queries never fires and the number of lookups equals the  *)
(* number of extracted queries.                                            *)
(***************************************************************************)
C20_ExtractedAreLookedUp == [](C20_NonEmpty) /\ [][C20_NoSkip]_vars

\* a message with a blank line between two queries: two queries extracted,
\* two lookups
C20_Witness ==
    \E t \in Tasks :
        /\ caller[t] = "handler"
        /\ message[t] = [kind |-> "text", text |-> <<"a", "\n", "\n", "a">>]
        /\ RanThrough(t)
        /\ Len(queries[t]) = 2
        /\ Len(Lookups(t)) = 2

====
